---- MODULE Spec2Model ----
(***************************************************************************)
(* sign_server.py: a Flask application, served by gevent, that drives one  *)
(* shared Playwright page to sign requests.                                *)
(*                                                                         *)
(* Process 0 is the __main__ block (one init_browser call, then the        *)
(* server).  Processes 1 and 2 are two greenlets of the server, each       *)
(* serving one HTTP request at a time; two are enough for every race       *)
(* between a request and another one.  gevent schedules cooperatively: a   *)
(* greenlet runs until its next blocking call (requests.get, a Playwright  *)
(* call, time.sleep), so every action below is one blocking call together  *)
(* with the non-blocking code that follows it up to the next blocking      *)
(* call.                                                                   *)
(***************************************************************************)
EXTENDS Integers, Sequences, FiniteSets, TLC

\* ---- bounds ----
\* Number of HTTP requests the server accepts.
MaxRequests == 2

\* ---- program constants ----
MaxAttempts == 10
MinScriptSize == 100
cdn_urls == <<"cdn.jsdelivr.net", "fastly.jsdelivr.net", "raw.githubusercontent.com">>
stealth_js_name == "stealth.min.js"

Main == 0
Clients == {1, 2}
Procs == {Main} \cup Clients

\* Python's None, for handles, paths and the file on disk.
None == <<>>

VARIABLES
    playwright_instance,  \* global, line 45
    browser_context,      \* global, line 46
    context_page,         \* global, line 47
    global_a1,            \* global, line 48
    stealth_file,         \* the file stealth.min.js on disk: None or <<content>>
    pc,                   \* position of each process
    req,                  \* the POST /sign request a client is signing
    stealth_js_path,      \* init_browser's local, per process
    idx,                  \* download_stealth_js's loop index, per process
    attempt,              \* generate_sign's loop index, per client
    arrived,              \* number of requests accepted so far
    touched,              \* history: the client ran init_browser before its handler
    browsers,             \* history: number of browsers launched (the code closes none)
    page_loaded,          \* the page context_page names has loaded the home page
    bootstrap,            \* history: who is bootstrapping that page, or that it is done
    evals,                \* history: evaluations made for the current request
    pauses,               \* history: backoff sleeps made for the current request
    response,             \* the HTTP response sent by the last step, if any
    last_call             \* the fetch or evaluation the last step made, if any

session == <<playwright_instance, browser_context, context_page, global_a1>>
locals == <<req, stealth_js_path, idx, attempt, arrived>>
history == <<touched, browsers, page_loaded, bootstrap, evals, pauses>>
vars == <<playwright_instance, browser_context, context_page, global_a1,
          stealth_file, pc, req, stealth_js_path, idx, attempt, arrived, touched,
          browsers, page_loaded, bootstrap, evals, pauses, response, last_call>>

\* ------------------------------------------------------------------------
\* Python values that cross the page boundary or end up in JSON.
\* v is the text str() gives; t is the type.
\* ------------------------------------------------------------------------
Str(s) == [t |-> "str", v |-> s]
Num(n) == [t |-> "int", v |-> ToString(n)]
PyList(s) == [t |-> "list", v |-> s]
PyNull == [t |-> "NoneType", v |-> "None"]

\* bool(x)
Truthy(x) ==
    CASE x.t = "str" -> x.v # ""
      [] x.t = "int" -> x.v # "0"
      [] x.t = "list" -> x.v # "[]"
      [] OTHER -> FALSE

\* a or b
PyOr(a, b) == IF Truthy(a) THEN a ELSE b

\* d.get(k): d is a function from keys to values
DictGet(d, k) == IF k \in DOMAIN d THEN d[k] ELSE PyNull

\* str(x)
PyStr(x) == Str(x.v)

\* x[:50] is defined
Sliceable(x) == x.t \in {"str", "list"}

\* ------------------------------------------------------------------------
\* Handles of the objects Playwright creates.  Every call creates a new
\* object: the n-th object assigned to a global is <<kind, n>>.
\* ------------------------------------------------------------------------
Fresh(kind, cur) == <<kind, IF cur = None THEN 1 ELSE cur[2] + 1>>

NoResponse == [client |-> Main, status |-> 0]

\* No requests.get and no page evaluation.
NoCall == [proc |-> Main, kind |-> ""]

\* The bootstrap of a page (lines 136-154): the process that created the
\* page and is taking it through navigation, settling delay and cookie
\* read, or the fact that these have all finished.
NoBootstrap == [by |-> Main, done |-> FALSE]
Bootstrapped == [by |-> Main, done |-> TRUE]

\* A JSON body as request.get_json() returns it: None, or a dict d.
EmptyDict == [k \in {} |-> ""]
JNull == [t |-> "null", d |-> EmptyDict]
JDict(fields) == [t |-> "dict", d |-> fields]

NoRequest == [route |-> "", json |-> JNull]

\* No evaluation of the signing function.
NoEval == [args |-> <<>>, out |-> [raised |-> "", val |-> PyNull]]

InitPcs == {"fetch", "start", "launch", "new_context", "add_init_script",
            "new_page", "goto", "sleep", "cookies"}

Initializing == {p \in Procs : pc[p] \in InitPcs}

\* ------------------------------------------------------------------------
\* Inputs from the outside world
\* ------------------------------------------------------------------------
\* The HTTP requests clients send.  get_json() gives None or a dict.
SignBodies ==
    { JNull,
      JDict(EmptyDict),
      JDict([data |-> "d1", a1 |-> "x"]),
      JDict([uri |-> "", data |-> "d1"]),
      JDict([uri |-> "/api/a", data |-> "d1"]),
      JDict([uri |-> "/api/b"]) }

Requests ==
    { [route |-> "POST /sign", json |-> b] : b \in SignBodies }
    \cup { [route |-> rt, json |-> JNull] :
             rt \in {"GET /health", "GET /a1", "GET /web_a1", "GET /", "GET /nope"} }

\* What requests.get(url) can produce: an exception, an error status, or a
\* body of some length.
FetchResults ==
    { [err |-> "timeout", len |-> 0],
      [err |-> "status", len |-> 0],
      [err |-> "", len |-> MinScriptSize - 1],
      [err |-> "", len |-> MinScriptSize] }

\* response.text
Text(res) == [len |-> res.len]

\* The file a deployment may already have on disk.
LocalFile == [len |-> MinScriptSize + 1]

\* What browser_context.cookies() can return.
Cookie(n, v) == [name |-> n, value |-> v]
CookieJars ==
    { <<>>,
      <<Cookie("webId", "w")>>,
      <<Cookie("a1", "v1")>>,
      <<Cookie("webId", "w"), Cookie("a1", "v2"), Cookie("a1", "v1")>> }

\* lines 149-154: the value of the first cookie named a1, else the old value
RECURSIVE FirstA1(_, _)
FirstA1(cookies, old) ==
    IF cookies = <<>> THEN old
    ELSE IF Head(cookies).name = "a1" THEN Head(cookies).value
    ELSE FirstA1(Tail(cookies), old)

\* ------------------------------------------------------------------------
\* Responses.  A response records the request it answers, and what the
\* handling of that request did.
\* ------------------------------------------------------------------------
Reply(r, rq, st, b) ==
    [client |-> r, status |-> st, request |-> rq,
     page |-> context_page, touched |-> touched[r],
     attempt |-> attempt[r], evals |-> evals[r], pauses |-> pauses[r],
     eval |-> NoEval,
     body |-> b]

\* Flask's handling of an exception that escapes a before_request function:
\* errorhandler(500), lines 359-366
internal_error(r, rq, msg) ==
    Reply(r, rq, 500, [error |-> "Internal server error", message |-> msg])

\* The client's request is over: its locals die.
finish(r, resp) ==
    /\ response' = resp
    /\ pc' = [pc EXCEPT ![r] = "idle"]
    /\ req' = [req EXCEPT ![r] = NoRequest]
    /\ attempt' = [attempt EXCEPT ![r] = 0]
    /\ touched' = [touched EXCEPT ![r] = FALSE]
    /\ evals' = [evals EXCEPT ![r] = 0]
    /\ pauses' = [pauses EXCEPT ![r] = 0]

\* ------------------------------------------------------------------------
\* init_browser
\* ------------------------------------------------------------------------
\* The exception leaves init_browser (line 165).  In __main__ it is caught
\* (lines 380-383) and the server starts; in a request it leaves
\* ensure_browser and Flask answers 500, whatever the request was.  Globals
\* assigned so far stay.
init_raise(p, msg) ==
    IF p = Main
      THEN /\ pc' = [pc EXCEPT ![p] = "serving"]
           /\ response' = NoResponse
           /\ last_call' = NoCall
           /\ UNCHANGED <<req, attempt, touched, evals, pauses>>
      ELSE /\ \E rq \in Requests : finish(p, internal_error(p, rq, msg))
           /\ last_call' = NoCall

\* An init_browser that raises at line 156 when no a1 was captured.
init_return_strict(p) ==
    IF global_a1' # ""
      THEN /\ pc' = [pc EXCEPT ![p] = IF p = Main THEN "serving" ELSE "handler"]
           /\ response' = NoResponse
           /\ UNCHANGED <<req, attempt, touched, evals, pauses>>
      ELSE IF p = Main
      THEN /\ pc' = [pc EXCEPT ![p] = "serving"]
           /\ response' = NoResponse
           /\ UNCHANGED <<req, attempt, touched, evals, pauses>>
      ELSE \E rq \in Requests : finish(p, internal_error(p, rq, "no a1 cookie"))

\* init_browser returns normally.
init_return(p) ==
    /\ pc' = [pc EXCEPT ![p] = IF p = Main THEN "serving" ELSE "handler"]
    /\ response' = NoResponse
    /\ UNCHANGED <<req, attempt, touched, evals, pauses>>

\* A download that does not look for the file first.
download_stealth_js_always(p) ==
    /\ stealth_js_path' = stealth_js_path
    /\ idx' = [idx EXCEPT ![p] = 1]
    /\ pc' = [pc EXCEPT ![p] = "fetch"]

\* download_stealth_js up to its first blocking call: lines 56-61, and the
\* entry of the loop at line 70.
download_stealth_js(p) ==
    IF stealth_file # None
      THEN /\ stealth_js_path' = [stealth_js_path EXCEPT ![p] = <<stealth_js_name>>]
           /\ idx' = idx
           /\ pc' = [pc EXCEPT ![p] = "start"]
      ELSE /\ stealth_js_path' = stealth_js_path
           /\ idx' = [idx EXCEPT ![p] = 1]
           /\ pc' = [pc EXCEPT ![p] = "fetch"]

\* Entry of init_browser: lines 106-117.
init_browser(p) ==
    /\ touched' = [touched EXCEPT ![p] = TRUE]
    /\ download_stealth_js(p)

\* Acceptance without the size test.
BodyAcceptedAnySize(res) == res.err = ""

\* A fetched body is acceptable: lines 76-79.
BodyAccepted(res) == res.err = "" /\ res.len >= MinScriptSize

\* One iteration of the loop of download_stealth_js: lines 70-93, and the
\* return at lines 95-98 when the list is exhausted.
download_fetch(p) ==
    /\ pc[p] = "fetch"
    /\ \E res \in FetchResults :
       /\ last_call' = [proc |-> p, kind |-> "requests.get", url |-> idx[p], res |-> res]
       /\ IF BodyAccepted(res)
           THEN /\ stealth_file' = <<Text(res)>>
                /\ stealth_js_path' = [stealth_js_path EXCEPT ![p] = <<stealth_js_name>>]
                /\ idx' = [idx EXCEPT ![p] = 0]
                /\ pc' = [pc EXCEPT ![p] = "start"]
           ELSE /\ stealth_file' = stealth_file
                /\ stealth_js_path' = stealth_js_path
                /\ IF idx[p] < Len(cdn_urls)
                     THEN /\ idx' = [idx EXCEPT ![p] = idx[p] + 1]
                          /\ pc' = pc
                     ELSE /\ idx' = [idx EXCEPT ![p] = 0]
                          /\ pc' = [pc EXCEPT ![p] = "start"]
    /\ response' = NoResponse
    /\ UNCHANGED <<session, req, attempt, arrived, history>>

\* sync_playwright().start(): lines 119-121
playwright_start(p) ==
    /\ pc[p] = "start"
    /\ \/ /\ playwright_instance' = Fresh("playwright", playwright_instance)
          /\ pc' = [pc EXCEPT ![p] = "launch"]
          /\ response' = NoResponse
          /\ last_call' = NoCall
          /\ UNCHANGED <<req, attempt, touched, evals, pauses, stealth_js_path>>
       \/ /\ init_raise(p, "start failed")
          /\ stealth_js_path' = [stealth_js_path EXCEPT ![p] = None]
          /\ UNCHANGED playwright_instance
    /\ UNCHANGED <<browser_context, context_page, global_a1, stealth_file,
                   idx, arrived, browsers, page_loaded, bootstrap>>

\* chromium.launch(headless=True): lines 124-125
browser_launch(p) ==
    /\ pc[p] = "launch"
    /\ \/ /\ browsers' = browsers + 1
          /\ pc' = [pc EXCEPT ![p] = "new_context"]
          /\ response' = NoResponse
          /\ last_call' = NoCall
          /\ UNCHANGED <<req, attempt, touched, evals, pauses, stealth_js_path>>
       \/ /\ init_raise(p, "launch failed")
          /\ stealth_js_path' = [stealth_js_path EXCEPT ![p] = None]
          /\ UNCHANGED browsers
    /\ UNCHANGED <<session, stealth_file, idx, arrived, page_loaded, bootstrap>>

\* browser.new_context(): line 128, and the test of line 131, after which
\* the local stealth_js_path is dead
new_context(p) ==
    /\ pc[p] = "new_context"
    /\ \/ /\ browser_context' = Fresh("context", browser_context)
          /\ pc' = [pc EXCEPT ![p] = IF stealth_js_path[p] # None
                                       THEN "add_init_script" ELSE "new_page"]
          /\ response' = NoResponse
          /\ last_call' = NoCall
          /\ UNCHANGED <<req, attempt, touched, evals, pauses>>
       \/ /\ init_raise(p, "new_context failed")
          /\ UNCHANGED browser_context
    /\ stealth_js_path' = [stealth_js_path EXCEPT ![p] = None]
    /\ UNCHANGED <<playwright_instance, context_page, global_a1, stealth_file,
                   idx, arrived, browsers, page_loaded, bootstrap>>

\* browser_context.add_init_script(path=...): lines 131-133
add_init_script(p) ==
    /\ pc[p] = "add_init_script"
    /\ \/ /\ pc' = [pc EXCEPT ![p] = "new_page"]
          /\ response' = NoResponse
          /\ last_call' = NoCall
          /\ UNCHANGED <<req, attempt, touched, evals, pauses>>
       \/ init_raise(p, "add_init_script failed")
    /\ UNCHANGED <<session, stealth_file, stealth_js_path, idx, arrived, browsers, page_loaded, bootstrap>>

\* browser_context.new_page(): line 136
new_page(p) ==
    /\ pc[p] = "new_page"
    /\ \/ /\ context_page' = Fresh("page", context_page)
          /\ page_loaded' = FALSE
          /\ bootstrap' = [by |-> p, done |-> FALSE]
          /\ pc' = [pc EXCEPT ![p] = "goto"]
          /\ response' = NoResponse
          /\ last_call' = NoCall
          /\ UNCHANGED <<req, attempt, touched, evals, pauses>>
       \/ /\ init_raise(p, "new_page failed")
          /\ UNCHANGED <<context_page, page_loaded, bootstrap>>
    /\ UNCHANGED <<playwright_instance, browser_context, global_a1, stealth_file,
                   stealth_js_path, idx, arrived, browsers>>

\* context_page.goto(home): lines 139-140.  The page navigated is the one
\* the global names when the call is made.
page_goto(p) ==
    /\ pc[p] = "goto"
    /\ \/ /\ page_loaded' = TRUE
          /\ pc' = [pc EXCEPT ![p] = "sleep"]
          /\ response' = NoResponse
          /\ last_call' = NoCall
          /\ UNCHANGED <<req, attempt, touched, evals, pauses>>
       \/ /\ init_raise(p, "goto failed")
          /\ UNCHANGED page_loaded
    /\ UNCHANGED <<session, stealth_file, stealth_js_path, idx, arrived, browsers, bootstrap>>

\* time.sleep(1): lines 144-145
settle_sleep(p) ==
    /\ pc[p] = "sleep"
    /\ pc' = [pc EXCEPT ![p] = "cookies"]
    /\ response' = NoResponse
    /\ last_call' = NoCall
    /\ UNCHANGED <<session, stealth_file, locals, history>>

\* browser_context.cookies() and the capture of a1: lines 148-161
read_cookies(p) ==
    /\ pc[p] = "cookies"
    /\ \/ /\ \E cookies \in CookieJars :
                /\ global_a1' = FirstA1(cookies, global_a1)
                /\ last_call' = [proc |-> p, kind |-> "cookies", cookies |-> cookies]
          /\ bootstrap' = IF bootstrap.by = p /\ ~bootstrap.done
                             THEN Bootstrapped ELSE bootstrap
          /\ init_return(p)
       \/ /\ init_raise(p, "cookies failed")
          /\ UNCHANGED <<global_a1, bootstrap>>
    /\ UNCHANGED <<playwright_instance, browser_context, context_page,
                   stealth_file, stealth_js_path, idx, arrived, browsers, page_loaded>>

\* ------------------------------------------------------------------------
\* __main__: lines 379-383, then the server starts
\* ------------------------------------------------------------------------
main(p) ==
    /\ p = Main
    /\ pc[p] = "main"
    /\ init_browser(p)
    /\ response' = NoResponse
    /\ last_call' = NoCall
    /\ UNCHANGED <<session, stealth_file, req, attempt, arrived,
                   browsers, page_loaded, bootstrap, evals, pauses>>

\* ------------------------------------------------------------------------
\* HTTP requests.  Nothing reads the request before the view function
\* does, so its content is drawn where the code first looks at it.
\* ------------------------------------------------------------------------
\* json_data.get(k, default)
Get(json, k, default) == IF k \in DOMAIN json.d THEN json.d[k] ELSE default

\* not json_data (line 302)
EmptyBody(json) == json.t = "null" \/ DOMAIN json.d = {}

\* not uri (lines 309, 316)
NoUri(json) == Get(json, "uri", "") = ""

\* A request is accepted by the server, which runs only once __main__ has
\* reached serve_forever, and is given to an idle greenlet.  The greenlets
\* are interchangeable, so the first idle one takes it.
arrive(r) ==
    /\ pc[Main] = "serving"
    /\ arrived < MaxRequests
    /\ pc[r] = "idle"
    /\ \A q \in Clients : q < r => pc[q] # "idle"
    /\ arrived' = arrived + 1
    /\ pc' = [pc EXCEPT ![r] = "before_request"]
    /\ response' = NoResponse
    /\ last_call' = NoCall
    /\ UNCHANGED <<session, stealth_file, req, stealth_js_path, idx, attempt, history>>

\* A readiness test that also asks for a captured a1.
NeedsInitOrA1 == context_page = None \/ global_a1 = ""

\* line 172
NeedsInit == context_page = None

\* before_request hook: lines 168-174
ensure_browser(r) ==
    /\ pc[r] = "before_request"
    /\ response' = NoResponse
    /\ last_call' = NoCall
    /\ IF NeedsInit
         THEN init_browser(r)
         ELSE /\ pc' = [pc EXCEPT ![r] = "handler"]
              /\ UNCHANGED <<touched, stealth_js_path, idx>>
    /\ UNCHANGED <<session, stealth_file, req, attempt, arrived,
                   browsers, page_loaded, bootstrap, evals, pauses>>

Route(rt) == [route |-> rt, json |-> JNull]

\* lines 280-290
health_check(r) ==
    /\ pc[r] = "handler"
    /\ last_call' = NoCall
    /\ LET browser_ready == context_page # None
       IN finish(r, Reply(r, Route("GET /health"), IF browser_ready THEN 200 ELSE 503,
                 [status |-> IF browser_ready THEN "healthy" ELSE "initializing",
                  browser_ready |-> browser_ready,
                  a1 |-> IF global_a1 # "" THEN global_a1 \o "..." ELSE ""]))
    /\ UNCHANGED <<session, stealth_file, stealth_js_path, idx, arrived, browsers, page_loaded, bootstrap>>

\* lines 344-347
get_a1(r) ==
    /\ pc[r] = "handler"
    /\ last_call' = NoCall
    /\ finish(r, Reply(r, Route("GET /a1"), 200, [a1 |-> global_a1]))
    /\ UNCHANGED <<session, stealth_file, stealth_js_path, idx, arrived, browsers, page_loaded, bootstrap>>

\* lines 252-255
web_a1(r) ==
    /\ pc[r] = "handler"
    /\ last_call' = NoCall
    /\ finish(r, Reply(r, Route("GET /web_a1"), 200, [web_a1 |-> global_a1]))
    /\ UNCHANGED <<session, stealth_file, stealth_js_path, idx, arrived, browsers, page_loaded, bootstrap>>

\* lines 257-277
index(r) ==
    /\ pc[r] = "handler"
    /\ last_call' = NoCall
    /\ finish(r, Reply(r, Route("GET /"), 200,
                       [service |-> "XHS Signature Server", status |-> "running"]))
    /\ UNCHANGED <<session, stealth_file, stealth_js_path, idx, arrived, browsers, page_loaded, bootstrap>>

\* lines 350-356: no route matches
not_found(r) ==
    /\ pc[r] = "handler"
    /\ last_call' = NoCall
    /\ finish(r, Reply(r, Route("GET /nope"), 404, [error |-> "Endpoint not found"]))
    /\ UNCHANGED <<session, stealth_file, stealth_js_path, idx, arrived, browsers, page_loaded, bootstrap>>

\* ------------------------------------------------------------------------
\* POST /sign
\* ------------------------------------------------------------------------
\* lines 299-329 on the request rq: validation, then the entry of
\* generate_sign (line 195)
sign_request(r, rq) ==
    /\ pc[r] = "handler"
    /\ last_call' = NoCall
    /\   /\ rq.route = "POST /sign"
         /\ IF EmptyBody(rq.json)
              THEN finish(r, Reply(r, rq, 400, [error |-> "Request body is required",
                                                success |-> FALSE]))
              ELSE IF NoUri(rq.json)
              THEN finish(r, Reply(r, rq, 400, [error |-> "uri parameter is required",
                                                success |-> FALSE]))
              ELSE /\ req' = [req EXCEPT ![r] = rq]
                   /\ attempt' = [attempt EXCEPT ![r] = 0]
                   /\ touched' = [touched EXCEPT ![r] = FALSE]
                   /\ pc' = [pc EXCEPT ![r] = "evaluate"]
                   /\ response' = NoResponse
                   /\ UNCHANGED <<evals, pauses>>
    /\ UNCHANGED <<session, stealth_file, stealth_js_path, idx, arrived, browsers, page_loaded, bootstrap>>

\* The body carries no non-empty uri.
Malformed(rq) == rq.route = "POST /sign" /\ (EmptyBody(rq.json) \/ NoUri(rq.json))

sign_endpoint(r) == \E rq \in Requests : sign_request(r, rq)

\* POST /sign from clients that all send the same well-formed body.
sign_accepted(r) ==
    sign_request(r, [route |-> "POST /sign",
                     json |-> JDict([uri |-> "/api/a", data |-> "d1"])])

\* POST /sign from clients that send no uri.
sign_rejected(r) == \E rq \in {q \in Requests : Malformed(q)} : sign_request(r, rq)

\* The string the page's signing function computes from its arguments.
Signature(args) == "XYS_" \o args[1] \o "_" \o args[2]

PyDict(d) == [t |-> "dict", v |-> "{..}", d |-> d]

\* What context_page.evaluate(..., [uri, data]) can produce on a page that
\* has loaded the home page: an exception, or the value window._webmsxyw
\* returned.
Raised(msg) == [raised |-> msg, val |-> PyNull]
Returned(val) == [raised |-> "", val |-> val]

PageResults(args) ==
    { Raised("window._webmsxyw is not a function"),
      Raised("Execution context was destroyed"),
      Returned(PyNull),
      Returned(Str("blocked")),
      Returned(Num(7)),
      Returned(PyList("['XYS', 1700000000]")),
      Returned(PyDict(("X-s" :> Str(Signature(args))) @@ ("X-t" :> Num(1700000000)))),
      Returned(PyDict(("x-s" :> Str(Signature(args))) @@ ("x-t" :> Str("1700000001")))),
      Returned(PyDict(EmptyDict)),
      Returned(PyDict("X-t" :> Num(1700000004))),
      Returned(PyDict("X-s" :> Num(5))),
      Returned(PyDict(("X-s" :> Str("")) @@ ("x-s" :> Str(Signature(args))) @@ ("X-t" :> Num(0)))),
      Returned(PyDict(("X-s" :> Num(5)) @@ ("X-t" :> Num(1700000002)))),
      Returned(PyDict(("x-s" :> PyList("['XYS']")) @@ ("X-t" :> Num(1700000003)))) }

\* A page that has not loaded the home page has no signing function.
Evaluate(page, args) ==
    IF page = None THEN {Raised("'NoneType' object has no attribute 'evaluate'")}
    ELSE IF ~page_loaded THEN {Raised("window._webmsxyw is not a function")}
    ELSE PageResults(args)

\* Arguments kept in one place shared by all requests: those of the request
\* that entered generate_sign last.
EvalArgsShared(r) ==
    LET last == IF \E q \in Clients : q > r /\ pc[q] \in {"evaluate", "backoff"}
                  THEN CHOOSE q \in Clients : q > r /\ pc[q] \in {"evaluate", "backoff"}
                  ELSE r
    IN <<Get(req[last].json, "uri", ""), Get(req[last].json, "data", "None")>>

\* lines 199-202: the arguments of the evaluation
EvalArgs(r) == <<Get(req[r].json, "uri", ""), Get(req[r].json, "data", "None")>>

\* lines 214-215
x_s(d) == PyOr(PyOr(DictGet(d, "X-s"), DictGet(d, "x-s")), Str(""))
x_t(d) == PyOr(PyOr(DictGet(d, "X-t"), DictGet(d, "x-t")), Str(""))

\* lines 223-226
SignResult(d) == ("x-s" :> x_s(d)) @@ ("x-t" :> PyStr(x_t(d)))

\* A try block without the test of line 210: a value that is no dict gives
\* a result with empty fields.
AttemptUnchecked(out) ==
    IF out.raised # "" THEN [ok |-> FALSE, msg |-> out.raised]
    ELSE IF out.val.t # "dict" THEN [ok |-> TRUE, result |-> SignResult(EmptyDict)]
    ELSE IF Truthy(x_s(out.val.d)) /\ ~Sliceable(x_s(out.val.d))
           THEN [ok |-> FALSE, msg |-> "'" \o x_s(out.val.d).t \o "' object is not subscriptable"]
    ELSE [ok |-> TRUE, result |-> SignResult(out.val.d)]

\* The body of the try block, lines 199-232, on the outcome of the
\* evaluation: the result returned, or the message of the exception
\* (raised by evaluate, by line 211, or by the slice x_s[:50] of line 229).
Attempt(out) ==
    IF out.raised # "" THEN [ok |-> FALSE, msg |-> out.raised]
    ELSE IF out.val.t # "dict" THEN [ok |-> FALSE, msg |-> "not a dict: " \o out.val.t]
    ELSE IF Truthy(x_s(out.val.d)) /\ ~Sliceable(x_s(out.val.d))
           THEN [ok |-> FALSE, msg |-> "'" \o x_s(out.val.d).t \o "' object is not subscriptable"]
    ELSE [ok |-> TRUE, result |-> SignResult(out.val.d)]

\* Giving up one attempt early.
IsLastAttemptEarly(a) == a = MaxAttempts - 2

\* line 241
IsLastAttempt(a) == a = MaxAttempts - 1

\* line 243, and str(e) at line 337
SignFailed(msg) == <<"sign failed (10 retries): ", msg>>

\* lines 334-341
sign_error(r, e) ==
    Reply(r, req[r], 500, [error |-> e, error_type |-> "Exception", success |-> FALSE,
                           hint |-> "retry"])

\* One attempt of generate_sign: lines 196-243, and lines 331-341 of
\* sign_endpoint when the call returns or raises.
evaluate(r) ==
    /\ pc[r] = "evaluate"
    /\ \E out \in Evaluate(context_page, EvalArgs(r)) :
         LET a == Attempt(out)
             n == evals[r] + 1
             ev == [args |-> EvalArgs(r), out |-> out]
         IN
         /\ last_call' = [proc |-> r, kind |-> "evaluate", page |-> context_page,
                          attempt |-> attempt[r], out |-> out]
         /\ IF a.ok
              THEN finish(r, [Reply(r, req[r], 200, a.result) EXCEPT !.evals = n, !.eval = ev])
              ELSE IF IsLastAttempt(attempt[r])
              THEN finish(r, [sign_error(r, SignFailed(a.msg)) EXCEPT !.evals = n, !.eval = ev])
              ELSE /\ pc' = [pc EXCEPT ![r] = "backoff"]
                   /\ evals' = [evals EXCEPT ![r] = n]
                   /\ response' = NoResponse
                   /\ UNCHANGED <<req, attempt, touched, pauses>>
    /\ UNCHANGED <<session, stealth_file, stealth_js_path, idx, arrived, browsers, page_loaded, bootstrap>>

\* A pause that also reloads the page and reads the cookies again before
\* the next attempt.
backoff_reload(r) ==
    /\ pc[r] = "backoff"
    /\ attempt' = [attempt EXCEPT ![r] = (attempt[r] + 1) % MaxAttempts]
    /\ pauses' = [pauses EXCEPT ![r] = pauses[r] + 1]
    /\ pc' = [pc EXCEPT ![r] = "evaluate"]
    /\ response' = NoResponse
    /\ \E cookies \in CookieJars :
          /\ global_a1' = FirstA1(cookies, global_a1)
          /\ last_call' = [proc |-> r, kind |-> "cookies", cookies |-> cookies]
    /\ UNCHANGED <<playwright_instance, browser_context, context_page, stealth_file,
                   req, stealth_js_path, idx, arrived, touched, browsers,
                   page_loaded, bootstrap, evals>>

\* time.sleep(0.5) and the next iteration: lines 246-247, 195; line 250
\* when the loop ends.
backoff(r) ==
    /\ pc[r] = "backoff"
    /\ IF attempt[r] + 1 < MaxAttempts
         THEN /\ attempt' = [attempt EXCEPT ![r] = attempt[r] + 1]
              /\ pauses' = [pauses EXCEPT ![r] = pauses[r] + 1]
              /\ pc' = [pc EXCEPT ![r] = "evaluate"]
              /\ response' = NoResponse
              /\ last_call' = NoCall
              /\ UNCHANGED <<req, touched, evals>>
         ELSE /\ finish(r, [sign_error(r, <<"still failing after all retries">>)
                                EXCEPT !.pauses = pauses[r] + 1])
              /\ last_call' = NoCall
    /\ UNCHANGED <<session, stealth_file, stealth_js_path, idx, arrived, browsers, page_loaded, bootstrap>>

\* ------------------------------------------------------------------------
\* Specification
\* ------------------------------------------------------------------------
Init ==
    /\ playwright_instance = None
    /\ browser_context = None
    /\ context_page = None
    /\ global_a1 = ""
    /\ stealth_file \in {None, <<LocalFile>>}
    /\ pc = [p \in Procs |-> IF p = Main THEN "main" ELSE "idle"]
    /\ req = [p \in Procs |-> NoRequest]
    /\ stealth_js_path = [p \in Procs |-> None]
    /\ idx = [p \in Procs |-> 0]
    /\ attempt = [p \in Procs |-> 0]
    /\ arrived = 0
    /\ touched = [p \in Procs |-> FALSE]
    /\ browsers = 0
    /\ page_loaded = FALSE
    /\ bootstrap = NoBootstrap
    /\ evals = [p \in Procs |-> 0]
    /\ pauses = [p \in Procs |-> 0]
    /\ response = NoResponse
    /\ last_call = NoCall

Next ==
    \/ \E p \in Procs : main(p)
    \/ \E p \in Procs : download_fetch(p)
    \/ \E p \in Procs : playwright_start(p)
    \/ \E p \in Procs : browser_launch(p)
    \/ \E p \in Procs : new_context(p)
    \/ \E p \in Procs : add_init_script(p)
    \/ \E p \in Procs : new_page(p)
    \/ \E p \in Procs : page_goto(p)
    \/ \E p \in Procs : settle_sleep(p)
    \/ \E p \in Procs : read_cookies(p)
    \/ \E r \in Clients : arrive(r)
    \/ \E r \in Clients : ensure_browser(r)
    \/ \E r \in Clients : health_check(r)
    \/ \E r \in Clients : get_a1(r)
    \/ \E r \in Clients : web_a1(r)
    \/ \E r \in Clients : index(r)
    \/ \E r \in Clients : not_found(r)
    \/ \E r \in Clients : sign_endpoint(r)
    \/ \E r \in Clients : evaluate(r)
    \/ \E r \in Clients : backoff(r)

Spec == Init /\ [][Next]_vars

\* The service while no client sends a well-formed POST /sign: start-up,
\* initialization from requests, and every answer that needs no signature.
NextBoot ==
    \/ \E p \in Procs : main(p)
    \/ \E p \in Procs : download_fetch(p)
    \/ \E p \in Procs : playwright_start(p)
    \/ \E p \in Procs : browser_launch(p)
    \/ \E p \in Procs : new_context(p)
    \/ \E p \in Procs : add_init_script(p)
    \/ \E p \in Procs : new_page(p)
    \/ \E p \in Procs : page_goto(p)
    \/ \E p \in Procs : settle_sleep(p)
    \/ \E p \in Procs : read_cookies(p)
    \/ \E r \in Clients : arrive(r)
    \/ \E r \in Clients : ensure_browser(r)
    \/ \E r \in Clients : health_check(r)
    \/ \E r \in Clients : get_a1(r)
    \/ \E r \in Clients : web_a1(r)
    \/ \E r \in Clients : index(r)
    \/ \E r \in Clients : not_found(r)
    \/ \E r \in Clients : sign_rejected(r)

SpecBoot == Init /\ [][NextBoot]_vars

\* The service once __main__ has initialized the browser and started the
\* server: the states in which init_browser returned at line 161.
InitReady ==
    /\ playwright_instance = Fresh("playwright", None)
    /\ browser_context = Fresh("context", None)
    /\ context_page = Fresh("page", None)
    /\ stealth_file \in {None, <<LocalFile>>}
    /\ pc = [p \in Procs |-> IF p = Main THEN "serving" ELSE "idle"]
    /\ req = [p \in Procs |-> NoRequest]
    /\ stealth_js_path = [p \in Procs |-> None]
    /\ idx = [p \in Procs |-> 0]
    /\ attempt = [p \in Procs |-> 0]
    /\ arrived = 0
    /\ touched = [p \in Procs |-> p = Main]
    /\ browsers = 1
    /\ page_loaded = TRUE
    /\ bootstrap = Bootstrapped
    /\ evals = [p \in Procs |-> 0]
    /\ pauses = [p \in Procs |-> 0]
    /\ response = NoResponse
    /\ \E cookies \in CookieJars :
          /\ global_a1 = FirstA1(cookies, "")
          /\ last_call = [proc |-> Main, kind |-> "cookies", cookies |-> cookies]

NextReady ==
    \/ \E r \in Clients : arrive(r)
    \/ \E r \in Clients : ensure_browser(r)
    \/ \E r \in Clients : health_check(r)
    \/ \E r \in Clients : get_a1(r)
    \/ \E r \in Clients : web_a1(r)
    \/ \E r \in Clients : index(r)
    \/ \E r \in Clients : not_found(r)
    \/ \E r \in Clients : sign_endpoint(r)
    \/ \E r \in Clients : evaluate(r)
    \/ \E r \in Clients : backoff(r)

SpecReady == InitReady /\ [][NextReady]_vars

\* The service when no asset file was deployed, no mirror answered at
\* start-up and the start-up init_browser failed at sync_playwright().start()
\* (lines 120, 380-383), and the clients send well-formed POST /sign
\* requests: the session is initialized by the requests themselves, while
\* other requests are being signed.
InitLazy ==
    /\ playwright_instance = None
    /\ browser_context = None
    /\ context_page = None
    /\ global_a1 = ""
    /\ stealth_file = None
    /\ pc = [p \in Procs |-> IF p = Main THEN "serving" ELSE "idle"]
    /\ req = [p \in Procs |-> NoRequest]
    /\ stealth_js_path = [p \in Procs |-> None]
    /\ idx = [p \in Procs |-> 0]
    /\ attempt = [p \in Procs |-> 0]
    /\ arrived = 0
    /\ touched = [p \in Procs |-> p = Main]
    /\ browsers = 0
    /\ page_loaded = FALSE
    /\ bootstrap = NoBootstrap
    /\ evals = [p \in Procs |-> 0]
    /\ pauses = [p \in Procs |-> 0]
    /\ response = NoResponse
    /\ last_call = NoCall

NextLazy ==
    \/ \E p \in Procs : download_fetch(p)
    \/ \E p \in Procs : playwright_start(p)
    \/ \E p \in Procs : browser_launch(p)
    \/ \E p \in Procs : new_context(p)
    \/ \E p \in Procs : add_init_script(p)
    \/ \E p \in Procs : new_page(p)
    \/ \E p \in Procs : page_goto(p)
    \/ \E p \in Procs : settle_sleep(p)
    \/ \E p \in Procs : read_cookies(p)
    \/ \E r \in Clients : arrive(r)
    \/ \E r \in Clients : ensure_browser(r)
    \/ \E r \in Clients : sign_accepted(r)
    \/ \E r \in Clients : evaluate(r)
    \/ \E r \in Clients : backoff(r)

SpecLazy == InitLazy /\ [][NextLazy]_vars

TypeOK ==
    /\ pc \in [Procs -> InitPcs \cup {"main", "serving", "idle", "before_request",
                                      "handler", "evaluate", "backoff"}]
    /\ \A p \in Procs : attempt[p] \in 0..(MaxAttempts - 1)
    /\ global_a1 \in {"", "v1", "v2"}

\* ------------------------------------------------------------------------
\* Properties
\* ------------------------------------------------------------------------
Answered == response.status # 0
SignAnswered == Answered /\ response.request.route = "POST /sign"
\* The response was built from an evaluation of the signing function.
Evaluated == SignAnswered /\ response.eval # NoEval
OwnArgs(rq) == <<Get(rq.json, "uri", ""), Get(rq.json, "data", "None")>>

\* C1: concurrent requests on an uninitialized service start at most one
\* initialization sequence (no init_browser begins while another is in
\* progress) and at most one browser is ever live.
C1_SingleInitialization ==
    /\ Cardinality(Initializing) <= 1
    /\ browsers <= 1

\* A step in which the init_browser of process p raises.
InitRaised(p) ==
    /\ pc[p] \in InitPcs
    /\ \/ p # Main /\ pc'[p] = "idle"
       \/ p = Main /\ pc'[p] = "serving" /\ pc[p] # "cookies"

\* C2: whenever an initialization attempt raises, at any step, the session
\* is uninitialized afterwards: context_page is None.
C2_FailedInitLeavesNoPage ==
    [][\A p \in Procs : InitRaised(p) => context_page' = None]_vars

\* C3: every POST /sign whose body lacks a non-empty uri is answered 400
\* with success false, in every session state.
C3_MissingUriIs400 ==
    (SignAnswered /\ Malformed(response.request))
        => (response.status = 400 /\ response.body.success = FALSE)

\* The values a response carries are those of the mapping d: each field is
\* the value under one of its two casings, or empty when there is none.
Carries(body, d) ==
    /\ DOMAIN body = {"x-s", "x-t"}
    /\ body["x-s"].v \in {DictGet(d, "X-s").v, DictGet(d, "x-s").v, ""}
    /\ body["x-t"].v \in {DictGet(d, "X-t").v, DictGet(d, "x-t").v, ""}

\* C4: when the evaluation of attempt k returns a mapping (after k-1 failed
\* attempts), the request ends there: k evaluations, k-1 pauses, and a 200
\* carrying the x-s / x-t of that evaluation.
C4_MappingOnAttemptKIs200 ==
    (Evaluated /\ response.eval.out.raised = "" /\ response.eval.out.val.t = "dict")
        => /\ response.status = 200
           /\ response.evals = response.attempt + 1
           /\ response.pauses = response.attempt
           /\ Carries(response.body, response.eval.out.val.d)

\* The failure message of an evaluation that did not yield a result.
FailureOf(out) ==
    IF out.raised # "" THEN out.raised
    ELSE IF out.val.t # "dict" THEN "not a dict: " \o out.val.t
    ELSE "'" \o DictGet(out.val.d, "X-s").t \o "' object is not subscriptable"

Contains(e, msg) == \E i \in 1..Len(e) : e[i] = msg

\* C5: a POST /sign that ends in failure after evaluating has made exactly
\* 10 evaluations and 9 pauses (never an 11th attempt), is answered 500, and
\* its error contains the failure message of the 10th attempt.
C5_ExhaustionIs500 ==
    /\ \A r \in Clients : evals[r] <= MaxAttempts /\ pauses[r] < MaxAttempts
    /\ (SignAnswered /\ ~Malformed(response.request) /\ response.status # 200)
          => /\ response.eval # NoEval
             /\ response.status = 500
             /\ response.evals = MaxAttempts
             /\ response.pauses = MaxAttempts - 1
             /\ Contains(response.body.error, FailureOf(response.eval.out))

\* C5 witness: ten failed attempts have been answered.
C5_Witness ==
    Evaluated /\ response.status = 500 /\ response.evals = MaxAttempts

\* C6: GET /health is answered 503 when no session page exists at the time
\* of the answer and 200 when one exists.
C6_HealthReflectsPage ==
    (Answered /\ response.request.route = "GET /health")
        => /\ response.page = None => response.status = 503
           /\ response.page # None => response.status = 200

\* C7: every 200 of POST /sign is the output of one evaluation whose
\* arguments were that request's own uri and data, whatever the other
\* requests in flight are doing.
C7_ResultFromOwnArguments ==
    (SignAnswered /\ response.status = 200)
        => /\ response.eval # NoEval
           /\ response.eval.args = OwnArgs(response.request)
           /\ response.eval.out.val.t = "dict"
           /\ Carries(response.body, response.eval.out.val.d)
           /\ response.body["x-s"].t = "str" /\ response.body["x-s"].v # ""
                 => response.body["x-s"].v = Signature(OwnArgs(response.request))

\* C7 witness: a request is answered 200 while another request with other
\* arguments is inside its retry loop.
C7_Witness ==
    /\ SignAnswered /\ response.status = 200
    /\ \E q \in Clients :
          /\ q # response.client
          /\ pc[q] \in {"evaluate", "backoff"}
          /\ attempt[q] > 0
          /\ OwnArgs(req[q]) # OwnArgs(response.request)

\* C8: once global_a1 has been captured its value never changes.
C8_A1SetOnce ==
    [][global_a1 # "" => global_a1' = global_a1]_vars

\* C9: once context_page is set it is never reset, and every ensure_browser
\* that finds it set goes straight to the view function, leaving engine,
\* context, page, a1, the asset file and the browsers as they are.
C9_ReadyIsTerminal ==
    [][/\ context_page # None => context_page' # None
       /\ \A r \in Clients :
            (pc[r] = "before_request" /\ pc'[r] # "before_request" /\ context_page # None)
               => /\ pc'[r] = "handler"
                  /\ touched'[r] = touched[r]
                  /\ UNCHANGED <<session, stealth_file, browsers, page_loaded>>]_vars

\* C9 witness: a request has passed ensure_browser on a live session without
\* initializing.
C9_Witness ==
    \E r \in Clients : pc[r] = "handler" /\ ~touched[r] /\ context_page # None

\* C10: a POST /sign without uri is answered without init_browser having
\* run for it.
C10_MalformedTouchesNothing ==
    (SignAnswered /\ Malformed(response.request)) => ~response.touched

\* The identity token a 200 of GET /a1 or GET /web_a1 carries.
A1Of(body) == IF "a1" \in DOMAIN body THEN body.a1 ELSE body.web_a1

\* C11: a GET /a1 handled on a service without a session (the request found
\* context_page None) is answered 200 with a1 = ""; a GET /a1 or GET /web_a1
\* handled on a bootstrapped session is answered 200 with the a1 captured.
C11_A1BeforeAndAfterBootstrap ==
    (Answered /\ response.request.route \in {"GET /a1", "GET /web_a1"})
        => /\ response.status = 200
           /\ (response.touched /\ response.request.route = "GET /a1")
                 => A1Of(response.body) = ""
           /\ ~response.touched => A1Of(response.body) = global_a1

\* C12: GET /a1 and GET /web_a1 are answered without init_browser having
\* run for them, in every session state: no asset fetch or write, no browser
\* start, no navigation, no change of engine, context, page or a1.
C12_A1ReadOnly ==
    [][\A r \in Clients :
         (response'.status # 0 /\ response'.client = r
             /\ response'.request.route \in {"GET /a1", "GET /web_a1"})
            => /\ ~touched[r]
               /\ UNCHANGED <<session, stealth_file, browsers, page_loaded>>]_vars

\* The step is one of generate_sign's, made for client r: an evaluation or
\* a backoff pause.
SignStep(r) == pc[r] \in {"evaluate", "backoff"} /\ pc'[r] # pc[r]

\* C13: every step of generate_sign, whatever its outcome, leaves engine,
\* context, page and a1 as they are (and the asset file, the browsers and
\* the page's load state too); it reads no cookies and fetches nothing, and
\* the only call it makes on the page is an evaluation, on the page
\* context_page names.
C13_SignLeavesSession ==
    [][\A r \in Clients :
         SignStep(r)
            => /\ UNCHANGED <<session, stealth_file, browsers, page_loaded, bootstrap>>
               /\ last_call'.kind \in {"evaluate", ""}
               /\ pc[r] = "evaluate"
                     => /\ last_call'.kind = "evaluate"
                        /\ last_call'.proc = r
                        /\ last_call'.page = context_page]_vars

\* C13 witness: a request was signed after retries while another request
\* was initializing the session.
C13_Witness ==
    /\ SignAnswered /\ response.status = 200 /\ response.attempt > 0
    /\ Initializing # {}

\* C16: every evaluation of the signing function is made on a page whose
\* bootstrap (navigation, settling delay, cookie read) has finished, under
\* every interleaving of requests and initializations.
C16_EvaluateOnlyAfterBootstrap ==
    last_call.kind = "evaluate"
        => /\ last_call.page # None
           /\ bootstrap = Bootstrapped

\* The step is the call of init_browser, and so of download_stealth_js, by
\* process p.
InitEntry(p) == pc[p] \in {"main", "before_request"} /\ pc'[p] \in InitPcs

\* The step is a requests.get made by process p.
Fetched(p) == last_call'.kind = "requests.get" /\ last_call'.proc = p

\* C14: a call of download_stealth_js that finds the file returns the path
\* at once, without a fetch and without a write, each time it is called;
\* and a file that was there before the service started is never
\* overwritten and no mirror is ever contacted.
C14_ExistingFileReturned ==
    [][/\ \A p \in Procs :
            (InitEntry(p) /\ stealth_file # None)
               => /\ pc'[p] = "start"
                  /\ stealth_js_path'[p] = <<stealth_js_name>>
                  /\ stealth_file' = stealth_file
                  /\ last_call'.kind # "requests.get"
       /\ stealth_file = <<LocalFile>>
            => /\ stealth_file' = <<LocalFile>>
               /\ last_call'.kind # "requests.get"]_vars

\* C14 witness: after the start-up call, a request's call has returned the
\* path of the file the deployment came with.
C14_Witness ==
    \E r \in Clients :
        /\ pc[r] = "start"
        /\ stealth_js_path[r] = <<stealth_js_name>>
        /\ stealth_file = <<LocalFile>>

\* C15: without a local file the mirrors are contacted in list order from
\* the first; an error, an error status or a body of fewer than 100
\* characters leaves the file unwritten and moves to the next mirror; the
\* first acceptable body is written as it is, the path is returned and no
\* later mirror is contacted; after the last mirror has failed the call
\* returns None, with no exception and no file.
C15_MirrorsInOrder ==
    [][\A p \in Procs :
         /\ (InitEntry(p) /\ stealth_file = None)
               => /\ pc'[p] = "fetch" /\ idx'[p] = 1
                  /\ stealth_js_path'[p] = None
                  /\ UNCHANGED stealth_file
         /\ Fetched(p)
               => LET res == last_call'.res
                      url == last_call'.url
                  IN /\ pc[p] = "fetch" /\ url = idx[p] /\ url \in 1..Len(cdn_urls)
                     /\ IF res.err # "" \/ res.len < MinScriptSize
                          THEN /\ UNCHANGED stealth_file
                               /\ stealth_js_path'[p] = None
                               /\ IF url < Len(cdn_urls)
                                    THEN pc'[p] = "fetch" /\ idx'[p] = url + 1
                                    ELSE pc'[p] = "start"
                          ELSE /\ stealth_file' = <<[len |-> res.len]>>
                               /\ stealth_js_path'[p] = <<stealth_js_name>>
                               /\ pc'[p] = "start"]_vars

\* C15 witness: the last mirror has failed after the others and the call
\* has returned None without a file.
C15_Witness ==
    /\ last_call.kind = "requests.get"
    /\ last_call.url = Len(cdn_urls)
    /\ pc[last_call.proc] = "start"
    /\ stealth_js_path[last_call.proc] = None
    /\ stealth_file = None

\* The cookie set holds a cookie named a1.
HasA1(cookies) == \E i \in 1..Len(cookies) : cookies[i].name = "a1"

\* The session runs without the asset or without an identity token.
Degraded == stealth_file = None \/ global_a1 = ""

\* C20: the absence of the asset and the absence of an a1 cookie do not end
\* init_browser.  When the last mirror has failed the call goes on to start
\* the engine, and the context it creates goes on to the page without a
\* script; a cookie read that returns no a1 makes init_browser return
\* normally with context_page set and a1 as it was (empty); and a POST /sign
\* handled on such a session is passed to generate_sign.
C20_DegradedInitCompletes ==
    [][\A p \in Procs :
         /\ (Fetched(p) /\ pc'[p] # "fetch" /\ stealth_file' = None)
               => /\ pc'[p] = "start"
                  /\ stealth_js_path'[p] = None
         /\ (pc[p] = "new_context" /\ pc'[p] # pc[p] /\ stealth_js_path[p] = None
                /\ browser_context' # browser_context)
               => pc'[p] = "new_page"
         /\ (last_call'.kind = "cookies" /\ last_call'.proc = p
                /\ ~HasA1(last_call'.cookies))
               => /\ pc'[p] = IF p = Main THEN "serving" ELSE "handler"
                  /\ context_page' # None
                  /\ global_a1' = global_a1
         /\ (pc[p] = "handler" /\ pc'[p] # "handler" /\ Degraded)
               => /\ pc'[p] = "evaluate"
                  /\ ~EmptyBody(req'[p].json) /\ ~NoUri(req'[p].json)]_vars

\* C20 witness: a session initialized without the asset and without an a1
\* cookie has signed a request.
C20_Witness ==
    /\ SignAnswered /\ response.status = 200
    /\ last_call.kind = "evaluate" /\ last_call.page = context_page
    /\ bootstrap = Bootstrapped
    /\ stealth_file = None
    /\ global_a1 = ""

\* The step is an evaluation made for client r.
Evaluation(r) == last_call'.kind = "evaluate" /\ last_call'.proc = r

\* The evaluation returned a value that is no mapping.
NotMapping(out) == out.raised = "" /\ out.val.t # "dict"

\* C17: an evaluation that returns a value that is no mapping gives no
\* result: it uses up the attempt; before the 10th it is followed by one
\* backoff pause and the next attempt, as after an exception, and on the
\* 10th the request fails with the 500 of exhaustion.
C17_NonMappingIsFailedAttempt ==
    [][\A r \in Clients :
         /\ (Evaluation(r) /\ NotMapping(last_call'.out))
               => /\ evals'[r] = evals[r] + 1 \/ response'.evals = evals[r] + 1
                  /\ IF attempt[r] < MaxAttempts - 1
                       THEN /\ pc'[r] = "backoff"
                            /\ response' = NoResponse
                            /\ attempt'[r] = attempt[r] /\ req'[r] = req[r]
                       ELSE /\ pc'[r] = "idle"
                            /\ response'.client = r
                            /\ response'.status = 500
                            /\ response'.evals = MaxAttempts
                            /\ Contains(response'.body.error, FailureOf(last_call'.out))
         /\ (pc[r] = "backoff" /\ pc'[r] # pc[r])
               => /\ pc'[r] = "evaluate"
                  /\ attempt'[r] = attempt[r] + 1
                  /\ pauses'[r] = pauses[r] + 1
                  /\ req'[r] = req[r]]_vars

\* C17 witness: an attempt before the 10th returned a list and the request
\* is in its backoff pause.
C17_Witness ==
    /\ last_call.kind = "evaluate"
    /\ NotMapping(last_call.out) /\ last_call.out.val.t = "list"
    /\ last_call.attempt > 0
    /\ pc[last_call.proc] = "backoff"

\* The mapping d has no signature field, or no timestamp field, under
\* either casing.
LacksSignature(d) == "X-s" \notin DOMAIN d /\ "x-s" \notin DOMAIN d
LacksTimestamp(d) == "X-t" \notin DOMAIN d /\ "x-t" \notin DOMAIN d

\* C18: an evaluation that returns a mapping without signature field or
\* without timestamp field ends the request on that attempt with a 200
\* whose missing fields are the empty string.
C18_MissingFieldIsSuccess ==
    (/\ last_call.kind = "evaluate"
     /\ last_call.out.raised = "" /\ last_call.out.val.t = "dict"
     /\ LacksSignature(last_call.out.val.d) \/ LacksTimestamp(last_call.out.val.d))
        => /\ response.status = 200
           /\ response.client = last_call.proc
           /\ response.evals = last_call.attempt + 1
           /\ response.pauses = last_call.attempt
           /\ pc[last_call.proc] = "idle"
           /\ LacksSignature(last_call.out.val.d) => response.body["x-s"] = Str("")
           /\ LacksTimestamp(last_call.out.val.d) => response.body["x-t"] = Str("")

\* C19: every 200 of POST /sign has exactly the keys x-s and x-t, both with
\* string values, whatever casing and whatever types the mapping returned
\* by the signing function used.
C19_ResultIsTwoStrings ==
    (SignAnswered /\ response.status = 200)
        => /\ DOMAIN response.body = {"x-s", "x-t"}
           /\ response.body["x-s"].t = "str"
           /\ response.body["x-t"].t = "str"

====
